---- MODULE Spec2Model ----
(***************************************************************************)
(* HtmlPretrainReader (src/src/ldc_html/pretrain/_html.py): a reader that  *)
(* resolves a list of HTML files at initialize(), pops one path per read() *)
(* and yields one PretrainData record with the body text of that file.     *)
(*                                                                         *)
(* Strings are sequences of characters.  The characters that matter to the *)
(* separator conversion are the backslash, the letters n, r and t, the     *)
(* three control characters and one ordinary character.                    *)
(***************************************************************************)
EXTENDS Integers, Sequences, FiniteSets, TLC

\* ---------------------------------------------------------------- bounds
\* longest list of paths the resolver returns
MaxFiles == 3
\* longest configured separator string
MaxSepLen == 3

\* ------------------------------------------------------------ value space
\* Python's None, for a field that holds a string
None == "None"
\* Python's None, for a field that holds a list or a str modelled as a sequence
NoneSeq == <<"None">>

Backslash == "\\"
NL == "NL"
CR == "CR"
TAB == "TAB"
Chars == {Backslash, "n", "r", "t", NL, CR, TAB, "x"}

Paths == {"a.html", "b.html"}

\* all sequences over S of length at most n
SeqsUpTo(S, n) == UNION {[1..k -> S] : k \in 0..n}

\* what a path holds on disk when read() opens it: nothing that can be opened,
\* a document the parser finds no <body> in, or a document with a body whose
\* text nodes are listed in document order
MissingFile == [exists |-> FALSE, has_body |-> FALSE, texts |-> <<>>]
NoBodyFile == [exists |-> TRUE, has_body |-> FALSE, texts |-> <<>>]
BodyFile == [exists |-> TRUE, has_body |-> TRUE, texts |-> << <<"x">>, <<"x", "n">> >>]
FileKinds == {MissingFile, NoBodyFile, BodyFile}

\* separators the lifecycle specifications are run with
SeparatorSamples == {NoneSeq, <<>>, <<Backslash, "n">>, <<"x", Backslash, "t">>}

VARIABLES
    source,             \* what source/source_list resolve to (the resolver's answer)
    files,              \* the file system: path -> what the path holds
    separator,          \* self.separator
    separator_arg,      \* the separator the reader was constructed with
    _inputs,            \* self._inputs
    _current_input,     \* self._current_input
    session_current_input, \* self.session.current_input
    records,            \* the records yielded so far, in order
    popped,             \* the paths popped so far, each with how its read ended
    marker_at_pop,      \* self._current_input as it was when read() last reached its pop
    super_finalize_calls, \* how often the host's finalize hook ran
    last,               \* the last call: its name, what it raised, what it returned
    pc                  \* where the driving loop stands ("caller": no loop, any call)

vars == <<source, files, separator, separator_arg, _inputs, _current_input,
          session_current_input, records, popped, marker_at_pop,
          super_finalize_calls, last, pc>>

\* ------------------------------------------------- separator conversion
\* str.replace(old, new) for a two-character old and a one-character new:
\* left to right, non-overlapping, every occurrence
RECURSIVE Replace(_, _, _)
Replace(s, old, new) ==
    IF Len(s) < 2 THEN s
    ELSE IF s[1] = old[1] /\ s[2] = old[2]
         THEN <<new>> \o Replace(SubSeq(s, 3, Len(s)), old, new)
         ELSE <<s[1]>> \o Replace(Tail(s), old, new)

\* initialize() without its third replace
NormalizeSeparatorNoTab(sep) ==
    LET s0 == IF sep = NoneSeq THEN <<>> ELSE sep
        s1 == Replace(s0, <<Backslash, "n">>, NL)
    IN  Replace(s1, <<Backslash, "r">>, CR)

\* lines 86-88 of initialize()
NormalizeSeparator(sep) ==
    LET s0 == IF sep = NoneSeq THEN <<>> ELSE sep
        s1 == Replace(s0, <<Backslash, "n">>, NL)
        s2 == Replace(s1, <<Backslash, "r">>, CR)
    IN  Replace(s2, <<Backslash, "t">>, TAB)

\* --------------------------------------------------------- collaborators
\* seppl.io.locate_files: the ordered list of files the patterns and list files
\* resolve to; raises when there is none and fail_if_empty is set
LocateFiles(found, fail_if_empty) ==
    IF found = <<>> /\ fail_if_empty
    THEN [raised |-> "Exception", value |-> NoneSeq]
    ELSE [raised |-> None, value |-> found]

\* initialize() calling the resolver without fail_if_empty
FailIfEmptyUnset == FALSE

\* the fail_if_empty argument initialize() passes to the resolver
FailIfEmpty == TRUE

\* Tag.get_text(separator): the text nodes in document order, joined
RECURSIVE GetText(_, _)
GetText(texts, sep) ==
    IF texts = <<>> THEN <<>>
    ELSE IF Len(texts) = 1 THEN texts[1]
    ELSE texts[1] \o sep \o GetText(Tail(texts), sep)

\* ------------------------------------------------------------ the reader
\* pop() in place of pop(0): the last path
PopLast(list) == [item |-> list[Len(list)], rest |-> SubSeq(list, 1, Len(list) - 1)]

\* a second pop after the first: the path behind the popped one is dropped
PopTwo(list) ==
    [item |-> Head(list),
     rest |-> IF Len(list) >= 2 THEN Tail(Tail(list)) ELSE Tail(list)]

\* list.pop(0) on a non-empty list
Pop0(list) == [item |-> Head(list), rest |-> Tail(list)]

\* has_finished() off by one: len(self._inputs) <= 1
HasFinishedOffByOne(inputs) == Len(inputs) <= 1

\* has_finished() answering "has more": len(self._inputs) > 0
HasFinishedInverted(inputs) == Len(inputs) > 0

\* len(self._inputs) == 0
HasFinishedValue(inputs) == Len(inputs) = 0

\* finalize() without its guard: the hook runs whether or not a marker is set
FinalizeStateUnguarded(marker, calls) == [marker |-> None, calls |-> calls + 1]

\* finalize() that runs the hook and leaves the marker set
FinalizeStateKeepsMarker(marker, calls) ==
    IF marker # None
    THEN [marker |-> marker, calls |-> calls + 1]
    ELSE [marker |-> marker, calls |-> calls]

\* finalize(): the marker and the hook count it leaves
FinalizeState(marker, calls) ==
    IF marker # None
    THEN [marker |-> None, calls |-> calls + 1]
    ELSE [marker |-> marker, calls |-> calls]

\* read() that swallows a failing open() and yields an empty record
ExtractSkipMissing(file, path, sep) ==
    IF ~file.exists
    THEN [raised |-> None, yielded |-> TRUE,
          record |-> <<[content |-> <<>>, meta_file |-> path]>>]
    ELSE IF ~file.has_body
    THEN [raised |-> "AttributeError", yielded |-> FALSE, record |-> <<>>]
    ELSE [raised |-> None, yielded |-> TRUE,
          record |-> <<[content |-> GetText(file.texts, sep), meta_file |-> path]>>]

\* read() that guards the body: no body gives a record with empty content
ExtractEmptyBody(file, path, sep) ==
    IF ~file.exists
    THEN [raised |-> "FileNotFoundError", yielded |-> FALSE, record |-> <<>>]
    ELSE IF ~file.has_body
    THEN [raised |-> None, yielded |-> TRUE,
          record |-> <<[content |-> <<>>, meta_file |-> path]>>]
    ELSE [raised |-> None, yielded |-> TRUE,
          record |-> <<[content |-> GetText(file.texts, sep), meta_file |-> path]>>]

\* read() from the open() on: what it raises, or the record it yields
Extract(file, path, sep) ==
    IF ~file.exists
    THEN [raised |-> "FileNotFoundError", yielded |-> FALSE, record |-> <<>>]
    ELSE IF ~file.has_body
    THEN [raised |-> "AttributeError", yielded |-> FALSE, record |-> <<>>]
    ELSE [raised |-> None, yielded |-> TRUE,
          record |-> <<[content |-> GetText(file.texts, sep), meta_file |-> path]>>]

Init ==
    /\ source \in SeqsUpTo(Paths, MaxFiles)
    /\ files \in [Paths -> FileKinds]
    /\ separator_arg \in SeparatorSamples
    /\ separator = separator_arg
    /\ _inputs = NoneSeq
    /\ _current_input = None
    /\ session_current_input = None
    /\ records = <<>>
    /\ popped = <<>>
    /\ marker_at_pop = None
    /\ super_finalize_calls = 0
    /\ last = [op |-> "__init__", raised |-> None, ret |-> None]
    /\ pc = "caller"

\* initialize()
Initialize ==
    LET r == LocateFiles(source, FailIfEmpty)
    IN  /\ IF r.raised # None
           THEN /\ last' = [op |-> "initialize", raised |-> r.raised, ret |-> None]
                /\ UNCHANGED <<_inputs, separator>>
           ELSE /\ _inputs' = r.value
                /\ separator' = NormalizeSeparator(separator)
                /\ last' = [op |-> "initialize", raised |-> None, ret |-> None]
        /\ UNCHANGED <<source, files, separator_arg, _current_input,
                       session_current_input, records, popped, marker_at_pop,
                       super_finalize_calls>>

\* read(), consumed by its caller
Read ==
    LET f == FinalizeState(_current_input, super_finalize_calls)
    IN  /\ super_finalize_calls' = f.calls
        /\ IF _inputs = NoneSeq
           THEN /\ last' = [op |-> "read", raised |-> "AttributeError", ret |-> None]
                /\ _current_input' = f.marker
                /\ UNCHANGED <<_inputs, session_current_input, records, popped,
                               marker_at_pop>>
           ELSE IF _inputs = <<>>
           THEN /\ last' = [op |-> "read", raised |-> "IndexError", ret |-> None]
                /\ _current_input' = f.marker
                /\ UNCHANGED <<_inputs, session_current_input, records, popped,
                               marker_at_pop>>
           ELSE LET p == Pop0(_inputs)
                    e == Extract(files[p.item], p.item, separator)
                IN  /\ marker_at_pop' = f.marker
                    /\ _inputs' = p.rest
                    /\ _current_input' = p.item
                    /\ session_current_input' = p.item
                    /\ popped' = Append(popped, [file |-> p.item, raised |-> e.raised])
                    /\ records' = records \o e.record
                    /\ last' = [op |-> "read", raised |-> e.raised,
                                ret |-> IF e.yielded THEN "record" ELSE None]
        /\ UNCHANGED <<source, files, separator, separator_arg>>

\* has_finished()
HasFinished ==
    /\ IF _inputs = NoneSeq
       THEN last' = [op |-> "has_finished", raised |-> "TypeError", ret |-> None]
       ELSE last' = [op |-> "has_finished", raised |-> None,
                     ret |-> IF HasFinishedValue(_inputs) THEN "True" ELSE "False"]
    /\ UNCHANGED <<source, files, separator, separator_arg, _inputs, _current_input,
                   session_current_input, records, popped, marker_at_pop,
                   super_finalize_calls>>

\* finalize()
Finalize ==
    LET f == FinalizeState(_current_input, super_finalize_calls)
    IN  /\ _current_input' = f.marker
        /\ super_finalize_calls' = f.calls
        /\ last' = [op |-> "finalize", raised |-> None, ret |-> None]
        /\ UNCHANGED <<source, files, separator, separator_arg, _inputs,
                       session_current_input, records, popped, marker_at_pop>>

\* ---------------------------------------------- any caller: Spec
\* The host initializes a reader once; after that every call may come in any order.
CallInitialize == _inputs = NoneSeq /\ Initialize /\ UNCHANGED pc
CallRead == Read /\ UNCHANGED pc
CallHasFinished == HasFinished /\ UNCHANGED pc
CallFinalize == Finalize /\ UNCHANGED pc

Next == CallInitialize \/ CallRead \/ CallHasFinished \/ CallFinalize

Spec == Init /\ [][Next]_vars

\* ------------------------------ the driving loop: SpecLoop
\*   initialize(); while not has_finished(): consume read()
\* An exception leaves the loop.
InitLoop ==
    /\ source \in SeqsUpTo(Paths, MaxFiles)
    /\ files \in [Paths -> FileKinds]
    /\ separator_arg \in SeparatorSamples
    /\ separator = separator_arg
    /\ _inputs = NoneSeq
    /\ _current_input = None
    /\ session_current_input = None
    /\ records = <<>>
    /\ popped = <<>>
    /\ marker_at_pop = None
    /\ super_finalize_calls = 0
    /\ last = [op |-> "__init__", raised |-> None, ret |-> None]
    /\ pc = "initialize"

LoopInitialize ==
    /\ pc = "initialize"
    /\ Initialize
    /\ pc' = IF last'.raised # None THEN "aborted" ELSE "has_finished"

LoopHasFinished ==
    /\ pc = "has_finished"
    /\ HasFinished
    /\ pc' = IF last'.raised # None THEN "aborted"
             ELSE IF last'.ret = "True" THEN "done" ELSE "read"

LoopRead ==
    /\ pc = "read"
    /\ Read
    /\ pc' = IF last'.raised # None THEN "aborted" ELSE "has_finished"

NextLoop == LoopInitialize \/ LoopHasFinished \/ LoopRead

SpecLoop == InitLoop /\ [][NextLoop]_vars

\* ----------------------- the separator conversion: SpecSeparator
\* initialize() applied, and applied again, to every configured separator
InitSeparator ==
    /\ source = <<"a.html">>
    /\ files = [p \in Paths |-> BodyFile]
    /\ separator_arg \in {NoneSeq} \cup SeqsUpTo(Chars, MaxSepLen)
    /\ separator = separator_arg
    /\ _inputs = NoneSeq
    /\ _current_input = None
    /\ session_current_input = None
    /\ records = <<>>
    /\ popped = <<>>
    /\ marker_at_pop = None
    /\ super_finalize_calls = 0
    /\ last = [op |-> "__init__", raised |-> None, ret |-> None]
    /\ pc = "caller"

ReInitialize == Initialize /\ UNCHANGED pc

NextSeparator == ReInitialize

SpecSeparator == InitSeparator /\ [][NextSeparator]_vars

\* ------------------------------------------------------------ properties
Initialized == _inputs # NoneSeq

\* the file names of a sequence of popped paths
RECURSIVE PoppedFiles(_)
PoppedFiles(ps) == IF ps = <<>> THEN <<>> ELSE <<ps[1].file>> \o PoppedFiles(Tail(ps))

\* the file names the records carry
RECURSIVE RecordFiles(_)
RecordFiles(rs) == IF rs = <<>> THEN <<>> ELSE <<rs[1].meta_file>> \o RecordFiles(Tail(rs))

NotRaised(p) == p.raised = None

IsSuffix(s, t) == Len(s) <= Len(t) /\ s = SubSeq(t, Len(t) - Len(s) + 1, Len(t))

\* a read step that popped a path
Pops == Len(popped') = Len(popped) + 1

\* everything but the record of the last call
reader_vars == <<source, files, separator, separator_arg, _inputs, _current_input,
                 session_current_input, records, popped, marker_at_pop,
                 super_finalize_calls, pc>>

\* C1, as stated: the loop ends with exactly one record per resolved path, in
\* failing runs as well, and has_finished() returns true only then.
C1_OneRecordPerPathAlways ==
    /\ (Initialized /\ pc \in {"done", "aborted"}) => Len(records) = Len(source)
    /\ (last.op = "has_finished" /\ last.ret = "True") => Len(records) = Len(source)

\* C1, amended: the loop that no read aborts ends with exactly one record per
\* resolved path; a read that raises ends the loop with one record for each path
\* popped before the failing one and none for the failing path or those behind it;
\* has_finished() returns true only when every resolved path has its record.
C1_OneRecordPerPathUnlessRaised ==
    Initialized =>
        /\ Len(popped) + Len(_inputs) = Len(source)
        /\ pc = "done" => (Len(records) = Len(source) /\ RecordFiles(records) = source)
        /\ pc = "aborted" =>
              /\ last.op = "read"
              /\ popped # <<>>
              /\ Len(records) = Len(popped) - 1
              /\ Len(records) < Len(source)
        /\ (last.op = "has_finished" /\ last.ret = "True") => Len(records) = Len(source)

C1_Witness ==
    /\ pc = "done"
    /\ Len(source) >= 2
    /\ Len(records) = Len(source)
    /\ last.op = "has_finished"
    /\ last.ret = "True"

\* C2, as stated: the k-th record carries the k-th resolved path, and no path
\* leaves the queue without a record carrying it.
C2_KthRecordKthPath ==
    Initialized =>
        /\ \A k \in 1..Len(records) : records[k].meta_file = source[k]
        /\ Len(records) = Len(source) - Len(_inputs)

\* C2, amended: every record carries exactly the path popped for its extraction;
\* paths are popped in resolver order, none reordered; the records are, in order,
\* the popped paths whose read did not raise (a path whose read raises leaves the
\* queue without a record), so the k-th record carries the k-th resolved path as
\* long as no earlier read raised.
C2_RecordsFollowPops ==
    Initialized =>
        /\ PoppedFiles(popped) \o _inputs = source
        /\ RecordFiles(records) = PoppedFiles(SelectSeq(popped, NotRaised))
        /\ (\A i \in 1..Len(popped) : NotRaised(popped[i])) =>
              (\A k \in 1..Len(records) : records[k].meta_file = source[k])
        /\ (last.op = "read" /\ last.ret = "record") =>
              /\ records[Len(records)].meta_file = _current_input
              /\ records[Len(records)].meta_file = session_current_input
              /\ records[Len(records)].meta_file = source[Len(popped)]

C2_Witness ==
    /\ Len(records) >= 2
    /\ records[1].meta_file # records[2].meta_file
    /\ last.op = "read"
    /\ last.ret = "record"

\* C3: with nothing resolved initialize() raises, the queue is never populated,
\* no record is produced; an empty queue only ever comes from popping.
C3_EmptyResolveFails ==
    /\ source = <<>> =>
          /\ ~Initialized
          /\ records = <<>>
          /\ popped = <<>>
          /\ last.op = "initialize" => last.raised # None
    /\ (Initialized /\ _inputs = <<>>) => popped # <<>>

C3_Witness ==
    /\ source = <<>>
    /\ last.op = "initialize"
    /\ last.raised = "Exception"
    /\ ~Initialized

\* C4: after initialize() the queue is a suffix of the resolved list, each step
\* leaves it alone or removes exactly its first element, and has_finished()
\* returns true exactly when it is empty.
C4_QueueOnlyShrinks ==
    /\ [](Initialized => IsSuffix(_inputs, source))
    /\ []((Initialized /\ last.op = "has_finished") =>
             /\ last.raised = None
             /\ (last.ret = "True") <=> (_inputs = <<>>))
    /\ [][Initialized =>
             \/ _inputs' = _inputs
             \/ (_inputs # <<>> /\ _inputs' = Tail(_inputs))]_vars

C4_Witness ==
    /\ Initialized
    /\ Len(source) >= 2
    /\ Len(_inputs) = 1
    /\ last.op = "has_finished"
    /\ last.ret = "False"

\* C5: a read whose open() fails raises, yields no record, consumes the failing
\* path and only that one (no retry, no skipping on to the next path).
C5_OpenFailurePropagates ==
    [][(Initialized /\ _inputs # <<>> /\ ~files[Head(_inputs)].exists
          /\ last'.op = "read") =>
            /\ last'.raised = "FileNotFoundError"
            /\ last'.ret = None
            /\ records' = records
            /\ _inputs' = Tail(_inputs)
            /\ popped' = Append(popped, [file |-> Head(_inputs),
                                          raised |-> "FileNotFoundError"])]_vars

C5_Witness ==
    /\ last.op = "read"
    /\ last.raised = "FileNotFoundError"
    /\ Initialized
    /\ _inputs # <<>>
    /\ records = <<>>
    /\ Len(popped) = 1

\* the control character a letter after a backslash stands for
Control(c) == IF c = "n" THEN NL ELSE IF c = "r" THEN CR ELSE TAB

\* the reading of "every token replaced": one pass from the left, each backslash
\* that an n, r or t follows becomes, with that letter, the control character
RECURSIVE EveryTokenReplaced(_)
EveryTokenReplaced(s) ==
    IF Len(s) < 2 THEN s
    ELSE IF s[1] = Backslash /\ s[2] \in {"n", "r", "t"}
         THEN <<Control(s[2])>> \o EveryTokenReplaced(SubSeq(s, 3, Len(s)))
         ELSE <<s[1]>> \o EveryTokenReplaced(Tail(s))

\* the string holds one of the three two-character tokens
HasToken(s) ==
    \E i \in 1..(Len(s) - 1) : s[i] = Backslash /\ s[i + 1] \in {"n", "r", "t"}

\* C6: after initialize() the separator is empty if it was unset, else the
\* configured string with every token replaced; it holds none of the three
\* tokens, and converting it again leaves it as it is.
C6_SeparatorNormalized ==
    (Initialized /\ last.op = "initialize") =>
        /\ separator_arg = NoneSeq => separator = <<>>
        /\ separator_arg # NoneSeq => separator = EveryTokenReplaced(separator_arg)
        /\ ~HasToken(separator)
        /\ NormalizeSeparator(separator) = separator

C6_Witness ==
    /\ Initialized
    /\ last.op = "initialize"
    /\ separator_arg = <<Backslash, Backslash, "t">>
    /\ separator = <<Backslash, TAB>>

\* C7: finalize() with no marker set changes nothing of the reader and does not
\* run the host's hook; a second finalize() in a row changes nothing; the hook
\* runs at most once per marker that was set.
C7_FinalizeIdempotent ==
    /\ [][(last'.op = "finalize" /\ _current_input = None) =>
             UNCHANGED reader_vars]_vars
    /\ [][(last.op = "finalize" /\ last'.op = "finalize") =>
             UNCHANGED reader_vars]_vars
    /\ [](super_finalize_calls <= Len(popped))

C7_Witness ==
    /\ last.op = "finalize"
    /\ _current_input = None
    /\ Len(popped) >= 2
    /\ super_finalize_calls = Len(popped)

\* C8: read() finalizes before it pops: at the pop the marker is cleared and the
\* hook has run for every path popped before; after the pop the marker is the
\* popped path, and it stays until the next finalize() or read().
C8_FinalizeBeforePop ==
    /\ [](marker_at_pop = None)
    /\ [][Pops =>
             /\ _current_input' = Head(_inputs)
             /\ session_current_input' = Head(_inputs)
             /\ super_finalize_calls' = Len(popped)]_vars
    /\ [][(_current_input # None /\ last'.op \notin {"finalize", "read"}) =>
             _current_input' = _current_input]_vars
    /\ []((last.op = "read" /\ popped # <<>> /\ last.raised # "IndexError") =>
             _current_input = popped[Len(popped)].file)

C8_Witness ==
    /\ last.op = "read"
    /\ Len(popped) >= 2
    /\ _current_input = popped[Len(popped)].file
    /\ super_finalize_calls = Len(popped) - 1
    /\ marker_at_pop = None

\* C9: an empty queue stays empty, has_finished() keeps returning true, and a
\* read() on it raises IndexError, yields nothing and pops nothing.
C9_FinishedIsTerminal ==
    /\ [][_inputs = <<>> => _inputs' = <<>>]_vars
    /\ []((_inputs = <<>> /\ last.op = "has_finished") => last.ret = "True")
    /\ [][(_inputs = <<>> /\ last'.op = "read") =>
             /\ last'.raised = "IndexError"
             /\ last'.ret = None
             /\ records' = records
             /\ popped' = popped
             /\ _inputs' = <<>>]_vars

C9_Witness ==
    /\ _inputs = <<>>
    /\ last.op = "read"
    /\ last.raised = "IndexError"
    /\ popped # <<>>

\* C10: a read of a file the parser finds no body in raises AttributeError and
\* yields no record.
C10_NoBodyRaises ==
    [][(Initialized /\ _inputs # <<>> /\ files[Head(_inputs)].exists
          /\ ~files[Head(_inputs)].has_body /\ last'.op = "read") =>
            /\ last'.raised = "AttributeError"
            /\ last'.ret = None
            /\ records' = records
            /\ Len(popped') = Len(popped) + 1]_vars

C10_Witness ==
    /\ Initialized
    /\ last.op = "read"
    /\ last.raised = "AttributeError"
    /\ popped # <<>>
    /\ files[popped[Len(popped)].file] = NoBodyFile
    /\ Len(records) = Len(popped) - 1

====
